---- MODULE Spec2Model ----
(***************************************************************************)
(* State-machine model of src/server/routes.ts (skillswap): the in-memory  *)
(* session map, the register/login handlers, the auto-login middleware,    *)
(* the content upload handler and the WebSocket broadcast handler.         *)
(*                                                                         *)
(* Every `await` of a handler is an interleaving point: a handler is cut   *)
(* into one action per stretch of code that runs without yielding.  A call *)
(* to the record store takes effect when it is made and its result is      *)
(* delivered to the handler's continuation in a later step.                *)
(***************************************************************************)
EXTENDS Integers, Sequences, FiniteSets, TLC

\* ------------------------------------------------------------------ bounds
MaxAuthReq == 2
MaxUploads == 2
MaxConn == 3
MaxEvents == 2
MaxApiReq == 2
MaxSessionReq == 3

\* ------------------------------------------------------------ value spaces
\* Math.random().toString(36).substring(2, 15): any string the generator can
\* produce; "" is what substring(2) leaves of "0" (Math.random() = 0).  The
\* code makes no uniqueness check, so a draw may repeat an earlier token.
Tokens == {"", "k1", "k2"}
\* The Authorization header of a request: absent, or any string.
NoHeader == "<absent>"
Headers == Tokens \cup {NoHeader}
Usernames == {"alice", "bob"}
Passwords == {"pw", "pw2"}
\* A field missing from a JSON body (undefined).
Missing == "<undefined>"

NoUser == [id |-> 0, username |-> Missing, password |-> Missing]
NoResponse == [status |-> 0]

VARIABLES
    users,          \* storage: the user table, in creation order
    sessions,       \* const sessions: Record<string, {userId, username}>
    authReq,        \* register/login requests, in arrival order
    contents,       \* storage: the content table, in creation order
    upReq,          \* upload requests, in arrival order
    summarizerCalls,\* the calls made to summarizeDocument
    clients,        \* wss.clients
    nextConn,       \* connections opened so far
    inbox,          \* per connection, the frames sent to it, in order
    wsEvents,       \* inbound frames handled so far
    lastEvent,      \* the inbound frame handled last, and its connection
    messages,       \* storage: the message table, in creation order
    apiReq,         \* conversation-fetch requests, in arrival order
    postReq         \* message-send requests, in arrival order

vars == <<users, sessions, authReq, contents, upReq, summarizerCalls,
          clients, nextConn, inbox, wsEvents, lastEvent, messages, apiReq,
          postReq>>

authVars == <<users, sessions, authReq>>
uploadVars == <<contents, upReq, summarizerCalls>>
chatVars == <<clients, nextConn, inbox, wsEvents, lastEvent>>
apiVars == <<messages, apiReq, postReq>>

\* ------------------------------------------------------------ session map
\* JavaScript truthiness of a string-or-undefined value.
Truthy(s) == s # NoHeader /\ s # Missing /\ s # ""

\* sessions[t] = value
SessionsPut(map, t, value) ==
    [k \in DOMAIN map \cup {t} |-> IF k = t THEN value ELSE map[k]]

\* {userId: user.id, username: user.username}
SessionOf(user) == [userId |-> user.id, username |-> user.username]

\* sessions is a plain object (line 41, `{}`), so sessions[k] also finds the
\* properties every object inherits from Object.prototype (constructor,
\* toString, valueOf, hasOwnProperty, ...); each of them is truthy.
InheritedKeys == {"constructor"}

\* sessions[k] is truthy.
SessionsHas(map, k) == k \in DOMAIN map \/ k \in InheritedKeys

\* sessions[k], read for its userId and username; read off an inherited
\* property both are undefined: userId 0 and username Missing stand for that
\* (the ids of users start at 1).
SessionsGet(map, k) ==
    IF k \in DOMAIN map THEN map[k] ELSE [userId |-> 0, username |-> Missing]

\* ------------------------------------------------------------- user store
\* storage.getUserByUsername(username): the first user of that name, if any.
GetUserByUsername(table, name) ==
    IF \E i \in 1..Len(table) : table[i].username = name
    THEN table[CHOOSE i \in 1..Len(table) :
                   /\ table[i].username = name
                   /\ \A j \in 1..(i - 1) : table[j].username # name]
    ELSE NoUser

\* storage.createUser(userData): a new row with the next numeric id.
CreateUser(table, name, pass) ==
    Append(table, [id |-> Len(table) + 1, username |-> name, password |-> pass])

\* ------------------------------------------------- POST /api/auth/register
\* insertUserSchema.parse(req.body) accepts a body with both string fields.
RegisterBodyValid(body) == body.username # Missing /\ body.password # Missing

AuthBodies == [username : Usernames \cup {Missing}, password : Passwords \cup {Missing}]

NewAuthReq(route, body) ==
    [route |-> route, pc |-> "start", username |-> body.username,
     password |-> body.password, found |-> NoUser, token |-> NoHeader,
     response |-> NoResponse]

\* Lines 98-103: the request arrives, the body is parsed and
\* storage.getUserByUsername is called; the handler yields on the await.
RegisterArrive(body) ==
    /\ Len(authReq) < MaxAuthReq
    /\ IF RegisterBodyValid(body)
       THEN authReq' = Append(authReq,
                [NewAuthReq("register", body) EXCEPT
                    !.pc = "looked-up",
                    !.found = GetUserByUsername(users, body.username)])
       ELSE authReq' = Append(authReq,
                [NewAuthReq("register", body) EXCEPT
                    !.pc = "done",
                    !.response = [status |-> 400]])
    /\ UNCHANGED <<users, sessions, uploadVars, chatVars, apiVars>>

\* Lines 104-108: the lookup's result; 400 if the name is taken, else
\* storage.createUser is called and the handler yields again.
RegisterCheck(r) ==
    /\ authReq[r].route = "register"
    /\ authReq[r].pc = "looked-up"
    /\ IF authReq[r].found # NoUser
       THEN /\ authReq' = [authReq EXCEPT ![r].pc = "done",
                                          ![r].response = [status |-> 400]]
            /\ UNCHANGED users
       ELSE /\ users' = CreateUser(users, authReq[r].username, authReq[r].password)
            /\ authReq' = [authReq EXCEPT ![r].pc = "created",
                                          ![r].found = users'[Len(users')]]
    /\ UNCHANGED <<sessions, uploadVars, chatVars, apiVars>>

\* The body of the 201 / 200 answer: {user: {id, username}, sessionId}.
AuthResponse(code, user, sessionId) ==
    [status |-> code, user |-> [id |-> user.id, username |-> user.username],
     sessionId |-> sessionId]

\* Lines 110-117: a session id is drawn, the session stored, 201 answered.
RegisterFinish(r) ==
    /\ authReq[r].route = "register"
    /\ authReq[r].pc = "created"
    /\ \E sessionId \in Tokens :
        /\ sessions' = SessionsPut(sessions, sessionId, SessionOf(authReq[r].found))
        /\ authReq' = [authReq EXCEPT
                 ![r].pc = "done",
                 ![r].token = sessionId,
                 ![r].response = AuthResponse(201, authReq[r].found, sessionId)]
    /\ UNCHANGED <<users, uploadVars, chatVars, apiVars>>

\* ---------------------------------------------------- POST /api/auth/login
\* Lines 127-135: missing fields are answered 400; else the user is looked up.
LoginArrive(body) ==
    /\ Len(authReq) < MaxAuthReq
    /\ IF ~Truthy(body.username) \/ ~Truthy(body.password)
       THEN authReq' = Append(authReq,
                [NewAuthReq("login", body) EXCEPT
                    !.pc = "done",
                    !.response = [status |-> 400]])
       ELSE authReq' = Append(authReq,
                [NewAuthReq("login", body) EXCEPT
                    !.pc = "looked-up",
                    !.found = GetUserByUsername(users, body.username)])
    /\ UNCHANGED <<users, sessions, uploadVars, chatVars, apiVars>>

\* A login that is never refused.
LoginRejectedNever(user, password) == FALSE

\* Line 137: !user || user.password !== password
LoginRejected(user, password) == user = NoUser \/ user.password # password

\* LoginSession reading a property the user row does not have (user.name).
LoginSessionWrongField(user) == [userId |-> user.id, username |-> Missing]

\* Line 143: the identity stored for the user found.
LoginSession(user) == SessionOf(user)

\* Lines 137-148: 401 on a wrong name or password; else a session id is
\* drawn, the session stored and 200 answered.
LoginFinish(r) ==
    /\ authReq[r].route = "login"
    /\ authReq[r].pc = "looked-up"
    /\ IF LoginRejected(authReq[r].found, authReq[r].password)
       THEN /\ authReq' = [authReq EXCEPT ![r].pc = "done",
                                          ![r].response = [status |-> 401]]
            /\ UNCHANGED sessions
       ELSE \E sessionId \in Tokens :
            /\ sessions' = SessionsPut(sessions, sessionId, LoginSession(authReq[r].found))
            /\ authReq' = [authReq EXCEPT
                     ![r].pc = "done",
                     ![r].token = sessionId,
                     ![r].response = AuthResponse(200, authReq[r].found, sessionId)]
    /\ UNCHANGED <<users, uploadVars, chatVars, apiVars>>

\* ----------------------------------------------------------- middleware
NoIdentity == [userId |-> 0, username |-> Missing]

\* authenticate passing every truthy header.
AuthenticatedAnyToken(map, header) == Truthy(header)

\* Lines 156-165, authenticate: !sessionId || !sessions[sessionId] is false.
Authenticated(map, header) == Truthy(header) /\ SessionsHas(map, header)

\* storage.getAllUsers()[0] as the auto-login middleware reads it (line 173).
FirstUser(table) == IF Len(table) > 0 THEN table[1] ELSE NoUser

\* ---------------------------------------------------------- content store
NullSummary == "<null>"
NoContent ==
    [id |-> 0, userId |-> 0, filename |-> "", type |-> "", filePath |-> "",
     fileSize |-> 0, status |-> "", summary |-> NullSummary]

\* storage.createContent(data): the row created, with the next numeric id.
\* The caller receives its own copy of the row.
CreateContent(table, data) ==
    [id |-> Len(table) + 1, userId |-> data.userId, filename |-> data.filename,
     type |-> data.type, filePath |-> data.filePath, fileSize |-> data.fileSize,
     status |-> data.status, summary |-> data.summary]

\* storage.updateContent(id, updates): the named fields of row id replaced.
UpdateContent(table, id, updates) ==
    [table EXCEPT ![id] =
        [f \in DOMAIN table[id] |->
            IF f \in DOMAIN updates THEN updates[f] ELSE table[id][f]]]

\* ------------------------------------------------ POST /api/content/upload
FileSizeLimit == 104857600

NoFile == [mimetype |-> "", originalname |-> "", size |-> 0]
Files ==
    {[mimetype |-> "application/pdf", originalname |-> "a.pdf", size |-> 5],
     [mimetype |-> "application/pdf", originalname |-> "big.pdf", size |-> FileSizeLimit + 1],
     [mimetype |-> "video/mp4", originalname |-> "b.mp4", size |-> FileSizeLimit],
     [mimetype |-> "image/png", originalname |-> "c.png", size |-> 5]}

\* Date.now() + "-" + Math.round(Math.random() * 1E9), lines 413-416: whatever
\* the clock and the generator give; two uploads may be given the same one.
Suffixes == {"1700000000000-1"}
\* What summarizeDocument may resolve to.
Summaries == {"S", "T"}
VideoPlaceholder == "Video summary is not available in this demo version."

\* fileFilter that accepts every file.
FileFilterAcceptsAll(file) == TRUE

\* Lines 422-429, fileFilter.
FileFilter(file) == file.mimetype \in {"application/pdf", "video/mp4"}

\* Line 421, limits.fileSize: multer fails a file longer than the limit.
WithinLimit(file) == file.size <= FileSizeLimit

\* Lines 413-416: the stored path of the upload.
StoredPath(suffix, file) == <<"uploads", suffix, file.originalname>>

\* Line 438.
FileType(file) == IF file.mimetype = "application/pdf" THEN "pdf" ELSE "video"

\* The error that upload.single hands to next(err).
MulterError(file) ==
    IF ~FileFilter(file)
    THEN [message |-> "Invalid file type. Only PDF and MP4 files are allowed.",
          status |-> 0]
    ELSE [message |-> "File too large", status |-> 0]

\* The answer to an error passed to next(err): routes.ts sets no status on
\* the error (line 427) and handles no error of the upload middleware, so
\* the error's own status is used, and 500 when it has none.
ErrorResponse(err) ==
    [status |-> IF err.status # 0 THEN err.status ELSE 500,
     message |-> err.message]

\* A record created already complete.
NewContentDataComplete(user, file, path) ==
    [userId |-> user.userId, filename |-> file.originalname,
     type |-> FileType(file), filePath |-> path, fileSize |-> file.size,
     status |-> "complete", summary |-> NullSummary]

\* Lines 440-448: the data the handler creates the record with.
NewContentData(user, file, path) ==
    [userId |-> user.userId, filename |-> file.originalname,
     type |-> FileType(file), filePath |-> path, fileSize |-> file.size,
     status |-> "processing", summary |-> NullSummary]

\* Line 454: the argument of summarizeDocument, req.file.path.
SummarizerArg(req) == req.path

\* The update of line 455 without its status field.
PdfSuccessUpdateNoStatus(summary) == [summary |-> summary]

\* Lines 455-458.
PdfSuccessUpdate(summary) == [summary |-> summary, status |-> "complete"]

\* The catch branch also storing the error text as the summary.
PdfFailureUpdateWithText == [status |-> "failed", summary |-> "Error summarizing PDF"]

\* Lines 461-463.
PdfFailureUpdate == [status |-> "failed"]

\* The video branch without its summary field.
VideoUpdateNoSummary == [status |-> "complete"]

\* Lines 468-471.
VideoUpdate == [summary |-> VideoPlaceholder, status |-> "complete"]

NewUpload(header, file) ==
    [pc |-> "start", header |-> header, user |-> NoIdentity, first |-> NoUser,
     file |-> file, path |-> <<>>, content |-> NoContent,
     summarizer |-> "none", summary |-> NullSummary, thrown |-> "none",
     response |-> NoResponse]

\* The answer of authenticate (line 160) when the header is not a session.
Unauthorized(req) ==
    [req EXCEPT !.pc = "done", !.response = [status |-> 401]]

\* authenticate passing (lines 163-164): req.user is set, multer runs next.
Authorized(req, map) ==
    [req EXCEPT !.pc = "multer", !.user = SessionsGet(map, req.header)]

\* Lines 168-170 and 156-165: the request reaches the auto-login middleware.
\* With a header, next() runs authenticate at once; without one,
\* storage.getAllUsers is called and the middleware yields.
UploadArrive(header, file) ==
    /\ Len(upReq) < MaxUploads
    /\ LET req == NewUpload(header, file) IN
       upReq' = Append(upReq,
           IF ~Truthy(header)
           THEN [req EXCEPT !.pc = "bootstrap", !.first = FirstUser(users)]
           ELSE IF Authenticated(sessions, header)
                THEN Authorized(req, sessions)
                ELSE Unauthorized(req))
    /\ UNCHANGED <<authVars, contents, summarizerCalls, chatVars, apiVars>>

\* Lines 171-177 and 156-165: the user list's result; a session is made for
\* users[0] if there is one, then authenticate runs on the new header.
UploadBootstrap(r) ==
    /\ upReq[r].pc = "bootstrap"
    /\ IF upReq[r].first # NoUser
       THEN \E sessionId \in Tokens :
            /\ sessions' = SessionsPut(sessions, sessionId, SessionOf(upReq[r].first))
            /\ LET req == [upReq[r] EXCEPT !.header = sessionId] IN
               upReq' = [upReq EXCEPT ![r] =
                   IF Authenticated(sessions', sessionId)
                   THEN Authorized(req, sessions')
                   ELSE Unauthorized(req)]
       ELSE /\ upReq' = [upReq EXCEPT ![r] = Unauthorized(upReq[r])]
            /\ UNCHANGED sessions
    /\ UNCHANGED <<users, authReq, contents, summarizerCalls, chatVars, apiVars>>

\* The body of the 201 answer, line 474: the handler's `content`.
ResponseBodyFromStore(req) == contents[req.content.id]

ResponseBody(req) == req.content

\* Lines 432-448 with upload.single("file"): the file is filtered, stored and
\* measured; a failing file goes to next(err), a request without a file is
\* answered 400, else storage.createContent is called and the handler yields.
\* storeOk is whether that call resolves (TRUE) or rejects.
UploadMulter(r, suffix, storeOk) ==
    /\ upReq[r].pc = "multer"
    /\ LET req == upReq[r] IN
       IF req.file = NoFile
       THEN /\ upReq' = [upReq EXCEPT ![r].pc = "done",
                                      ![r].response = [status |-> 400]]
            /\ UNCHANGED contents
       ELSE IF ~FileFilter(req.file) \/ ~WithinLimit(req.file)
       THEN /\ upReq' = [upReq EXCEPT ![r].pc = "done",
                                      ![r].response = ErrorResponse(MulterError(req.file))]
            /\ UNCHANGED contents
       ELSE IF storeOk
       THEN LET path == StoredPath(suffix, req.file)
                row == CreateContent(contents, NewContentData(req.user, req.file, path))
            IN /\ contents' = Append(contents, row)
               /\ upReq' = [upReq EXCEPT ![r].pc = "created",
                                         ![r].path = path,
                                         ![r].content = row]
       ELSE /\ upReq' = [upReq EXCEPT ![r].pc = "rejected",
                                      ![r].path = StoredPath(suffix, req.file),
                                      ![r].thrown = "outer"]
            /\ UNCHANGED contents
    /\ UNCHANGED <<authVars, summarizerCalls, chatVars, apiVars>>

\* The update aimed at the newest row of the store, not at content.id.
CallUpdateLatest(r, req, updates, place, storeOk) ==
    IF storeOk
    THEN /\ contents' = UpdateContent(contents, Len(contents), updates)
         /\ upReq' = [upReq EXCEPT ![r] = [req EXCEPT !.pc = "updated"]]
    ELSE /\ UNCHANGED contents
         /\ upReq' = [upReq EXCEPT ![r] = [req EXCEPT !.pc = "rejected",
                                                      !.thrown = place]]

\* A call storage.updateContent(id, updates) made from `place` ("try",
\* "catch" or "video") by request r, whose record is req by then: the call
\* takes effect and resolves, or rejects.
CallUpdate(r, req, updates, place, storeOk) ==
    IF storeOk
    THEN /\ contents' = UpdateContent(contents, req.content.id, updates)
         /\ upReq' = [upReq EXCEPT ![r] = [req EXCEPT !.pc = "updated"]]
    ELSE /\ UNCHANGED contents
         /\ upReq' = [upReq EXCEPT ![r] = [req EXCEPT !.pc = "rejected",
                                                      !.thrown = place]]

\* Lines 451-454 and 465-471: after createContent resolves, the pdf branch
\* calls summarizeDocument and yields; the video branch calls updateContent.
UploadAfterCreate(r, storeOk) ==
    /\ upReq[r].pc = "created"
    /\ IF upReq[r].content.type = "pdf"
       THEN /\ summarizerCalls' = summarizerCalls \cup
                    {[req |-> r, path |-> SummarizerArg(upReq[r])]}
            /\ upReq' = [upReq EXCEPT ![r].pc = "summarizing",
                                      ![r].summarizer = "pending"]
            /\ UNCHANGED contents
       ELSE /\ CallUpdate(r, upReq[r], VideoUpdate, "video", storeOk)
            /\ UNCHANGED summarizerCalls
    /\ UNCHANGED <<authVars, chatVars, apiVars>>

\* Lines 454-458: summarizeDocument resolves with `summary`.
UploadSummarized(r, summary, storeOk) ==
    /\ upReq[r].pc = "summarizing"
    /\ CallUpdate(r, [upReq[r] EXCEPT !.summarizer = "resolved", !.summary = summary],
                  PdfSuccessUpdate(summary), "try", storeOk)
    /\ UNCHANGED <<authVars, summarizerCalls, chatVars, apiVars>>

\* Lines 459-464: summarizeDocument rejects; the catch marks the record.
UploadSummarizerFailed(r, storeOk) ==
    /\ upReq[r].pc = "summarizing"
    /\ CallUpdate(r, [upReq[r] EXCEPT !.summarizer = "rejected"],
                  PdfFailureUpdate, "catch", storeOk)
    /\ UNCHANGED <<authVars, summarizerCalls, chatVars, apiVars>>

\* Line 474: the update has resolved and the handler answers 201.
UploadRespond(r) ==
    /\ upReq[r].pc = "updated"
    /\ upReq' = [upReq EXCEPT ![r].pc = "done",
                              ![r].response = [status |-> 201,
                                               body |-> ResponseBody(upReq[r])]]
    /\ UNCHANGED <<authVars, contents, summarizerCalls, chatVars, apiVars>>

\* A rejected store call reaches the handler: one thrown inside the try of
\* line 453 is caught at line 459 like a summarizer failure; any other is
\* caught at line 475 and answered 500.
UploadStoreRejected(r, storeOk) ==
    /\ upReq[r].pc = "rejected"
    /\ IF upReq[r].thrown = "try"
       THEN CallUpdate(r, upReq[r], PdfFailureUpdate, "catch", storeOk)
       ELSE /\ upReq' = [upReq EXCEPT ![r].pc = "done",
                                      ![r].response = [status |-> 500]]
            /\ UNCHANGED contents
    /\ UNCHANGED <<authVars, summarizerCalls, chatVars, apiVars>>

\* ------------------------------------------------------- WebSocket server
\* An inbound frame's text: not JSON, or the JSON of an object with the
\* fields type, sessionId and content (any of them possibly missing).
Malformed == [type |-> "<not json>", sessionId |-> Missing, content |-> Missing]
Payloads ==
    {Malformed} \cup
    [type : {"message"}, sessionId : {Missing, "k1", "k2", "constructor"},
     content : {"hi"}] \cup
    [type : {"ping"}, sessionId : {"k1"}, content : {"hi"}]

NoEvent == [from |-> 0, payload |-> Malformed, failing |-> {}]

\* A welcome frame typed like a chat frame.
WelcomeFrameAsMessage ==
    [type |-> "message", senderId |-> Missing, senderName |-> Missing,
     content |-> "Connected to chat server"]

\* Lines 58-62: the welcome frame (its timestamp is left out of the model).
WelcomeFrame ==
    [type |-> "system", senderId |-> Missing, senderName |-> Missing,
     content |-> "Connected to chat server"]

\* JSON.stringify of a userId: a number is written as its decimal text (so
\* no user id reads "system"), and a key whose value is undefined is left out.
JsonUserId(userId) == IF userId = 0 THEN Missing ELSE ToString(userId)

\* Lines 73-79: the frame sent for inbound data (its timestamp is left out).
BroadcastFrame(data) ==
    LET known == Truthy(data.sessionId) /\ SessionsHas(sessions, data.sessionId)
        session == SessionsGet(sessions, data.sessionId)
    IN
    [type |-> "message",
     senderId |-> IF known THEN JsonUserId(session.userId) ELSE "system",
     senderName |-> IF known THEN session.username ELSE "System",
     content |-> data.content]

\* Every inbound frame taken for a chat message, parsed or not.
IsBroadcastAnyFrame(payload) == TRUE

\* Lines 67-69: the frame parses and its data.type is "message".
IsBroadcast(payload) == payload # Malformed /\ payload.type = "message"

\* A frame put in front of the frames already sent.
DeliverFirst(box, frame) == <<frame>> \o box

\* Lines 58 and 73, ws.send / client.send: the frame goes out on the
\* connection after the frames already sent on it.
Deliver(box, frame) == Append(box, frame)

\* The broadcast loop without its `client !== ws` test.
RecipientsWithSender(ws) == clients

\* Lines 71-72: the clients the loop sends to.
Recipients(ws) == clients \ {ws}

\* wss.clients.forEach visits the set in insertion order, the order the
\* connections were opened in; a send that throws ends the loop (the catch
\* of line 83 is outside it), so the clients after it are not reached.
Reached(ws, failing) ==
    {c \in Recipients(ws) : \A f \in failing \cap Recipients(ws) : c < f}

\* Lines 54-62: a connection is opened; the server adds it to wss.clients
\* and the handler sends it the welcome frame.
Connect ==
    /\ nextConn < MaxConn
    /\ nextConn' = nextConn + 1
    /\ clients' = clients \cup {nextConn'}
    /\ inbox' = Append(inbox, Deliver(<<>>, WelcomeFrame))
    /\ UNCHANGED <<authVars, uploadVars, apiVars, wsEvents, lastEvent>>

\* Lines 92-94: a connection closes; the server drops it from wss.clients
\* and the handler only logs.
Disconnect(ws) ==
    /\ ws \in clients
    /\ clients' = clients \ {ws}
    /\ UNCHANGED <<authVars, uploadVars, apiVars, nextConn, inbox, wsEvents, lastEvent>>

\* Lines 64-86: an inbound frame of connection ws is handled.  JSON.parse
\* throws on a malformed frame and the catch logs it; a frame of type
\* "message" is sent to the other clients; `failing` are the clients whose
\* send throws.
Receive(ws, payload, failing) ==
    /\ ws \in clients
    /\ wsEvents < MaxEvents
    /\ wsEvents' = wsEvents + 1
    /\ lastEvent' = [from |-> ws, payload |-> payload, failing |-> failing]
    /\ IF IsBroadcast(payload)
       THEN inbox' = [c \in DOMAIN inbox |->
                        IF c \in Reached(ws, failing)
                        THEN Deliver(inbox[c], BroadcastFrame(payload))
                        ELSE inbox[c]]
       ELSE UNCHANGED inbox
    /\ UNCHANGED <<authVars, uploadVars, apiVars, clients, nextConn>>

\* ----------------------------------------------- GET /api/messages/:userId
\* The message store; a row is {id, senderId, receiverId, content, read}.
\* storage.getConversation(a, b): the rows between a and b, either way,
\* oldest first.
GetConversation(table, a, b) ==
    SelectSeq(table, LAMBDA m :
        \/ m.senderId = a /\ m.receiverId = b
        \/ m.senderId = b /\ m.receiverId = a)

\* storage.markMessagesAsRead(readerId, counterpartId): every row sent to
\* readerId by counterpartId is marked read.
MarkMessagesAsRead(table, readerId, counterpartId) ==
    [i \in DOMAIN table |->
        IF table[i].receiverId = readerId /\ table[i].senderId = counterpartId
        THEN [table[i] EXCEPT !.read = TRUE]
        ELSE table[i]]

\* The :userId segment of the path, and parseInt of it (lines 372-376).
Params == {"1", "2", "3", "x"}
NaN == -1
ParseInt(param) ==
    IF param = "1" THEN 1
    ELSE IF param = "2" THEN 2
    ELSE IF param = "3" THEN 3
    ELSE NaN

NewApiReq(header, param) ==
    [pc |-> "arrived", header |-> header, user |-> NoIdentity, first |-> NoUser,
     param |-> param, conversation |-> <<>>, response |-> NoResponse]

\* The call of line 381 with its arguments exchanged.
MarkReadArgsSwapped(req) == <<ParseInt(req.param), req.user.userId>>

\* Line 381: the arguments of storage.markMessagesAsRead.
MarkReadArgs(req) == <<req.user.userId, ParseInt(req.param)>>

\* Lines 156-165 and 370-378: authenticate, then the handler up to its first
\* await.  An unknown header is answered 401 and the handler does not run;
\* a :userId that is not a number is answered 400; else
\* storage.getConversation is called on `table` and the handler yields.
FetchStart(req, map, table) ==
    IF ~Authenticated(map, req.header)
    THEN [req EXCEPT !.pc = "done", !.response = [status |-> 401]]
    ELSE LET user == SessionsGet(map, req.header) IN
         IF ParseInt(req.param) = NaN
         THEN [req EXCEPT !.pc = "done", !.user = user,
                          !.response = [status |-> 400]]
         ELSE [req EXCEPT !.pc = "conversation", !.user = user,
                          !.conversation =
                              GetConversation(table, user.userId, ParseInt(req.param))]

\* Lines 168-170: the request reaches the auto-login middleware.  With a
\* header, next() runs authenticate and the handler at once; without one,
\* storage.getAllUsers is called and the middleware yields.
FetchArrive(header, param) ==
    /\ Len(apiReq) < MaxApiReq
    /\ LET req == NewApiReq(header, param) IN
       apiReq' = Append(apiReq,
           IF ~Truthy(header)
           THEN [req EXCEPT !.pc = "bootstrap", !.first = FirstUser(users)]
           ELSE FetchStart(req, sessions, messages))
    /\ UNCHANGED <<authVars, uploadVars, chatVars, messages, postReq>>

\* Lines 171-177: the user list's result; a session is made for users[0] if
\* there is one, the header is set to its key, and next() runs authenticate
\* and the handler.
FetchBootstrap(r) ==
    /\ apiReq[r].pc = "bootstrap"
    /\ IF apiReq[r].first # NoUser
       THEN \E sessionId \in Tokens :
            /\ sessions' = SessionsPut(sessions, sessionId, SessionOf(apiReq[r].first))
            /\ apiReq' = [apiReq EXCEPT ![r] =
                   FetchStart([apiReq[r] EXCEPT !.header = sessionId],
                              sessions', messages)]
       ELSE /\ apiReq' = [apiReq EXCEPT ![r] =
                   FetchStart(apiReq[r], sessions, messages)]
            /\ UNCHANGED sessions
    /\ UNCHANGED <<users, authReq, uploadVars, chatVars, messages, postReq>>

\* Lines 378-381: getConversation has resolved; storage.markMessagesAsRead
\* is called and the handler yields.
FetchMarkRead(r) ==
    /\ apiReq[r].pc = "conversation"
    /\ messages' = MarkMessagesAsRead(messages, MarkReadArgs(apiReq[r])[1],
                                      MarkReadArgs(apiReq[r])[2])
    /\ apiReq' = [apiReq EXCEPT ![r].pc = "marked"]
    /\ UNCHANGED <<authVars, uploadVars, chatVars, postReq>>

\* Line 383: res.json(conversation).
FetchRespond(r) ==
    /\ apiReq[r].pc = "marked"
    /\ apiReq' = [apiReq EXCEPT ![r].pc = "done",
                                ![r].response = [status |-> 200,
                                                 body |-> apiReq[r].conversation]]
    /\ UNCHANGED <<authVars, uploadVars, chatVars, messages, postReq>>

\* ------------------------------------------------------ POST /api/messages
\* req.body: senderId and receiverId are user ids, 0 standing for a field
\* that is absent.
MessageBodies == [senderId : 0..3, receiverId : {0, 2}, content : {"hi"}]

NoMessage == [id |-> 0, senderId |-> 0, receiverId |-> 0, content |-> "", read |-> FALSE]

\* storage.createMessage(data): the row created, with the next numeric id,
\* unread.
CreateMessage(table, data) ==
    [id |-> Len(table) + 1, senderId |-> data.senderId,
     receiverId |-> data.receiverId, content |-> data.content, read |-> FALSE]

\* The clients of the route: the user with that id, at their own device.
Callers == 1..3

NewPostReq(by, header, body) ==
    [pc |-> "arrived", caller |-> by, header |-> header, user |-> NoIdentity,
     first |-> NoUser, body |-> body, message |-> NoMessage,
     response |-> NoResponse]

\* Lines 392-395: {...req.body, senderId: req.user.id}.
MessageData(req) == [req.body EXCEPT !.senderId = req.user.userId]

\* insertMessageSchema.parse (line 392): senderId and receiverId are
\* required numbers; an undefined one is a ZodError.
InsertMessageValid(data) == data.senderId # 0 /\ data.receiverId # 0

\* Lines 156-165 and 390-397: authenticate, then the handler up to its
\* await.  An unknown header is answered 401; data the schema refuses is
\* answered 400 (line 401); else storage.createMessage is called and the
\* handler yields.
PostStart(r, req, map) ==
    IF ~Authenticated(map, req.header)
    THEN /\ postReq' = [r2 \in 1..r |-> IF r2 = r
                THEN [req EXCEPT !.pc = "done", !.response = [status |-> 401]]
                ELSE postReq[r2]] \o SubSeq(postReq, r + 1, Len(postReq))
         /\ UNCHANGED messages
    ELSE LET authed == [req EXCEPT !.user = SessionsGet(map, req.header)] IN
         IF ~InsertMessageValid(MessageData(authed))
         THEN /\ postReq' = [r2 \in 1..r |-> IF r2 = r
                     THEN [authed EXCEPT !.pc = "done", !.response = [status |-> 400]]
                     ELSE postReq[r2]] \o SubSeq(postReq, r + 1, Len(postReq))
              /\ UNCHANGED messages
         ELSE LET row == CreateMessage(messages, MessageData(authed)) IN
              /\ messages' = Append(messages, row)
              /\ postReq' = [r2 \in 1..r |-> IF r2 = r
                     THEN [authed EXCEPT !.pc = "created", !.message = row]
                     ELSE postReq[r2]] \o SubSeq(postReq, r + 1, Len(postReq))

\* Lines 168-170: the request reaches the auto-login middleware.
PostArrive(by, header, body) ==
    /\ Len(postReq) < MaxApiReq
    /\ LET req == NewPostReq(by, header, body) IN
       IF ~Truthy(header)
       THEN /\ postReq' = Append(postReq,
                   [req EXCEPT !.pc = "bootstrap", !.first = FirstUser(users)])
            /\ UNCHANGED messages
       ELSE PostStart(Len(postReq) + 1, req, sessions)
    /\ UNCHANGED <<authVars, uploadVars, chatVars, apiReq>>

\* Lines 171-177: the user list's result, then authenticate and the handler.
PostBootstrap(r) ==
    /\ postReq[r].pc = "bootstrap"
    /\ IF postReq[r].first # NoUser
       THEN \E sessionId \in Tokens :
            /\ sessions' = SessionsPut(sessions, sessionId, SessionOf(postReq[r].first))
            /\ PostStart(r, [postReq[r] EXCEPT !.header = sessionId], sessions')
       ELSE /\ PostStart(r, postReq[r], sessions)
            /\ UNCHANGED sessions
    /\ UNCHANGED <<users, authReq, uploadVars, chatVars, apiReq>>

\* Line 398: res.status(201).json(newMessage).
PostRespond(r) ==
    /\ postReq[r].pc = "created"
    /\ postReq' = [postReq EXCEPT ![r].pc = "done",
                                  ![r].response = [status |-> 201,
                                                   body |-> postReq[r].message]]
    /\ UNCHANGED <<authVars, uploadVars, chatVars, messages, apiReq>>

\* ---------------------------------------------------------- specification
Init ==
    /\ users = <<>>
    /\ sessions = <<>>
    /\ authReq = <<>>
    /\ contents = <<>>
    /\ upReq = <<>>
    /\ summarizerCalls = {}
    /\ clients = {}
    /\ nextConn = 0
    /\ inbox = <<>>
    /\ wsEvents = 0
    /\ lastEvent = NoEvent
    /\ messages = <<>>
    /\ apiReq = <<>>
    /\ postReq = <<>>

NextAuth ==
    \/ \E body \in AuthBodies : RegisterArrive(body)
    \/ \E r \in 1..Len(authReq) : RegisterCheck(r)
    \/ \E r \in 1..Len(authReq) : RegisterFinish(r)
    \/ \E body \in AuthBodies : LoginArrive(body)
    \/ \E r \in 1..Len(authReq) : LoginFinish(r)

SpecAuth == Init /\ [][NextAuth]_vars

\* The state after one registration: user 1 holds session "k1".
SeedUsers == <<[id |-> 1, username |-> "alice", password |-> "pw"]>>
SeedSessions == [t \in {"k1"} |-> [userId |-> 1, username |-> "alice"]]

InitSeeded ==
    /\ users = SeedUsers
    /\ sessions = SeedSessions
    /\ authReq = <<>>
    /\ contents = <<>>
    /\ upReq = <<>>
    /\ summarizerCalls = {}
    /\ clients = {}
    /\ nextConn = 0
    /\ inbox = <<>>
    /\ wsEvents = 0
    /\ lastEvent = NoEvent
    /\ messages = <<>>
    /\ apiReq = <<>>
    /\ postReq = <<>>

\* The upload route while every record-store call resolves.
NextUpload ==
    \/ \E header \in Headers, file \in Files \cup {NoFile} : UploadArrive(header, file)
    \/ \E r \in 1..Len(upReq) : UploadBootstrap(r)
    \/ \E r \in 1..Len(upReq), suffix \in Suffixes : UploadMulter(r, suffix, TRUE)
    \/ \E r \in 1..Len(upReq) : UploadAfterCreate(r, TRUE)
    \/ \E r \in 1..Len(upReq), summary \in Summaries : UploadSummarized(r, summary, TRUE)
    \/ \E r \in 1..Len(upReq) : UploadSummarizerFailed(r, TRUE)
    \/ \E r \in 1..Len(upReq) : UploadRespond(r)

SpecUpload == InitSeeded /\ [][NextUpload]_vars

\* The upload route when record-store calls may also reject.
NextUploadFaulty ==
    \/ \E header \in Headers, file \in Files \cup {NoFile} : UploadArrive(header, file)
    \/ \E r \in 1..Len(upReq) : UploadBootstrap(r)
    \/ \E r \in 1..Len(upReq), suffix \in Suffixes, ok \in BOOLEAN : UploadMulter(r, suffix, ok)
    \/ \E r \in 1..Len(upReq), ok \in BOOLEAN : UploadAfterCreate(r, ok)
    \/ \E r \in 1..Len(upReq), summary \in Summaries, ok \in BOOLEAN :
           UploadSummarized(r, summary, ok)
    \/ \E r \in 1..Len(upReq), ok \in BOOLEAN : UploadSummarizerFailed(r, ok)
    \/ \E r \in 1..Len(upReq) : UploadRespond(r)
    \/ \E r \in 1..Len(upReq), ok \in BOOLEAN : UploadStoreRejected(r, ok)

SpecUploadFaulty == InitSeeded /\ [][NextUploadFaulty]_vars

\* The chat server while every send succeeds.
NextChat ==
    \/ Connect
    \/ \E ws \in clients : Disconnect(ws)
    \/ \E ws \in clients, payload \in Payloads : Receive(ws, payload, {})

SpecChat == InitSeeded /\ [][NextChat]_vars

\* The clients whose send throws while one event is handled: none, or one.
FailingSets == {{}} \cup {{c} : c \in clients}

\* The chat server when a send may also throw.
NextChatFaulty ==
    \/ Connect
    \/ \E ws \in clients : Disconnect(ws)
    \/ \E ws \in clients, payload \in Payloads, failing \in FailingSets :
           Receive(ws, payload, failing)

SpecChatFaulty == InitSeeded /\ [][NextChatFaulty]_vars

\* The whole server: every handler, with store calls and sends that may
\* fail.  SpecAuth, SpecUpload, SpecUploadFaulty and SpecChat are its parts,
\* each run on its own; the upload and chat parts start from SeedState, a
\* state of the session map and user table that SpecAuth reaches.
Next ==
    \/ NextAuth
    \/ NextUploadFaulty
    \/ Connect
    \/ \E ws \in clients : Disconnect(ws)
    \/ \E ws \in clients, payload \in Payloads, failing \in FailingSets :
           Receive(ws, payload, failing)
    \/ \E header \in Headers \cup InheritedKeys, param \in Params :
           FetchArrive(header, param)
    \/ \E r \in 1..Len(apiReq) : FetchBootstrap(r)
    \/ \E r \in 1..Len(apiReq) : FetchMarkRead(r)
    \/ \E r \in 1..Len(apiReq) : FetchRespond(r)
    \/ \E by \in Callers, header \in Headers \cup InheritedKeys, body \in MessageBodies :
           PostArrive(by, header, body)
    \/ \E r \in 1..Len(postReq) : PostBootstrap(r)
    \/ \E r \in 1..Len(postReq) : PostRespond(r)

Spec == Init /\ [][Next]_vars

\* The session map and user table InitSeeded starts from.
SeedState == users = SeedUsers /\ sessions = SeedSessions

\* A step of a request already received: its pending middleware, store call
\* or summarizer call settles and the continuation runs.
UploadContinues ==
    \/ \E r \in 1..Len(upReq) : UploadBootstrap(r)
    \/ \E r \in 1..Len(upReq), suffix \in Suffixes, ok \in BOOLEAN : UploadMulter(r, suffix, ok)
    \/ \E r \in 1..Len(upReq), ok \in BOOLEAN : UploadAfterCreate(r, ok)
    \/ \E r \in 1..Len(upReq), summary \in Summaries, ok \in BOOLEAN :
           UploadSummarized(r, summary, ok)
    \/ \E r \in 1..Len(upReq), ok \in BOOLEAN : UploadSummarizerFailed(r, ok)
    \/ \E r \in 1..Len(upReq) : UploadRespond(r)
    \/ \E r \in 1..Len(upReq), ok \in BOOLEAN : UploadStoreRejected(r, ok)

\* The faulty upload route in a process that keeps running: every promise
\* settles (the summarizer returns or fails, a store call resolves or
\* rejects) and the event loop runs the continuation.
SpecUploadFaultyLive == SpecUploadFaulty /\ WF_vars(UploadContinues)

\* The Authorization headers sent to the conversation route: none, empty,
\* a live session's key, a key of no session, and a name every object
\* inherits.
ApiHeaders == Headers \cup InheritedKeys

\* The server before any registration, or after one.
InitApi ==
    /\ \/ users = <<>> /\ sessions = <<>>
       \/ users = SeedUsers /\ sessions = SeedSessions
    /\ authReq = <<>>
    /\ contents = <<>>
    /\ upReq = <<>>
    /\ summarizerCalls = {}
    /\ clients = {}
    /\ nextConn = 0
    /\ inbox = <<>>
    /\ wsEvents = 0
    /\ lastEvent = NoEvent
    /\ messages = <<>>
    /\ apiReq = <<>>
    /\ postReq = <<>>

\* An authenticated route behind the auto-login middleware.
NextApi ==
    \/ \E header \in ApiHeaders, param \in {"1", "x"} : FetchArrive(header, param)
    \/ \E r \in 1..Len(apiReq) : FetchBootstrap(r)
    \/ \E r \in 1..Len(apiReq) : FetchMarkRead(r)
    \/ \E r \in 1..Len(apiReq) : FetchRespond(r)

SpecApi == InitApi /\ [][NextApi]_vars

\* Three users, sessions of the first two, and one message each way between
\* every two of them, each read or not.
ChatUsers ==
    <<[id |-> 1, username |-> "alice", password |-> "pw"],
      [id |-> 2, username |-> "bob", password |-> "pw"],
      [id |-> 3, username |-> "carol", password |-> "pw"]>>
ChatSessions ==
    [t \in {"k1", "k2"} |->
        IF t = "k1" THEN [userId |-> 1, username |-> "alice"]
        ELSE [userId |-> 2, username |-> "bob"]]
Pairs == <<<<2, 1>>, <<1, 2>>, <<3, 1>>, <<1, 3>>, <<2, 3>>, <<3, 2>>>>
MessageTables ==
    {[i \in DOMAIN Pairs |->
        [id |-> i, senderId |-> Pairs[i][1], receiverId |-> Pairs[i][2],
         content |-> "hi", read |-> flags[i]]] : flags \in [DOMAIN Pairs -> BOOLEAN]}

InitConversation ==
    /\ users = ChatUsers
    /\ sessions = ChatSessions
    /\ authReq = <<>>
    /\ contents = <<>>
    /\ upReq = <<>>
    /\ summarizerCalls = {}
    /\ clients = {}
    /\ nextConn = 0
    /\ inbox = <<>>
    /\ wsEvents = 0
    /\ lastEvent = NoEvent
    /\ messages \in MessageTables
    /\ apiReq = <<>>
    /\ postReq = <<>>

\* Conversation fetches of the two signed-in users.
NextConversation ==
    \/ \E header \in DOMAIN ChatSessions, param \in Params : FetchArrive(header, param)
    \/ \E r \in 1..Len(apiReq) : FetchMarkRead(r)
    \/ \E r \in 1..Len(apiReq) : FetchRespond(r)

SpecConversation == InitConversation /\ [][NextConversation]_vars

\* Three users, two of them signed in, and no message yet.
InitMessages ==
    /\ users = ChatUsers
    /\ sessions = ChatSessions
    /\ authReq = <<>>
    /\ contents = <<>>
    /\ upReq = <<>>
    /\ summarizerCalls = {}
    /\ clients = {}
    /\ nextConn = 0
    /\ inbox = <<>>
    /\ wsEvents = 0
    /\ lastEvent = NoEvent
    /\ messages = <<>>
    /\ apiReq = <<>>
    /\ postReq = <<>>

\* The Authorization headers user `by` can send: none, empty, the key of a
\* session that was made for them, or a name every object inherits.
HeadersOf(by) ==
    {NoHeader, ""} \cup InheritedKeys \cup
    {t \in DOMAIN ChatSessions : ChatSessions[t].userId = by}

\* The message-send route behind the auto-login middleware.
NextMessages ==
    \/ \E by \in Callers : \E header \in HeadersOf(by), body \in MessageBodies :
           PostArrive(by, header, body)
    \/ \E r \in 1..Len(postReq) : PostBootstrap(r)
    \/ \E r \in 1..Len(postReq) : PostRespond(r)

SpecMessages == InitMessages /\ [][NextMessages]_vars

\* Registration, login and token-less requests to an authenticated route
\* together, MaxSessionReq requests in all; the fetches carry a :userId that is
\* not a number, so they end at line 375 once authenticate has passed.
NextSessions ==
    \/ /\ Len(authReq) + Len(apiReq) < MaxSessionReq
       /\ \/ \E body \in AuthBodies : RegisterArrive(body)
          \/ \E body \in AuthBodies : LoginArrive(body)
          \/ FetchArrive(NoHeader, "x")
    \/ \E r \in 1..Len(authReq) : RegisterCheck(r)
    \/ \E r \in 1..Len(authReq) : RegisterFinish(r)
    \/ \E r \in 1..Len(authReq) : LoginFinish(r)
    \/ \E r \in 1..Len(apiReq) : FetchBootstrap(r)

SpecSessions == Init /\ [][NextSessions]_vars

\* ------------------------------------------------------------------ claims

\* An auth request r answers with success in this step.
AuthSucceedsNow(r) ==
    /\ r <= Len(authReq)
    /\ authReq[r].pc # "done"
    /\ authReq'[r].pc = "done"
    /\ authReq'[r].response.status \in {200, 201}

\* C9: whenever a register or login call answers with success, the token in
\* the answer resolves, in the session map as it is when the answer is sent,
\* to the {userId, username} of the user row that registered or logged in
\* under the username the request named.
C9_TokenResolvesToCaller ==
    [][\A r \in 1..MaxAuthReq :
        AuthSucceedsNow(r) =>
            LET resp == authReq'[r].response IN
            /\ resp.sessionId \in DOMAIN sessions'
            /\ sessions'[resp.sessionId] =
                   [userId |-> resp.user.id, username |-> resp.user.username]
            /\ resp.user.username = authReq[r].username
            /\ \E i \in 1..Len(users') :
                   /\ users'[i].id = resp.user.id
                   /\ users'[i].username = authReq[r].username]_vars

\* C9 witness: a register and a later login have both answered with success
\* and the login's token resolves to the user.
C9_Witness ==
    \E r1, r2 \in 1..Len(authReq) :
        /\ authReq[r1].route = "register" /\ authReq[r1].response.status = 201
        /\ authReq[r2].route = "login" /\ authReq[r2].response.status = 200
        /\ authReq[r2].token \in DOMAIN sessions
        /\ sessions[authReq[r2].token].username = authReq[r2].username

\* C10: once a token resolves to an identity, it resolves to that same
\* identity after every later step (no entry is overwritten or removed).
C10_SessionNeverMutated ==
    [][\A t \in DOMAIN sessions :
        t \in DOMAIN sessions' /\ sessions'[t] = sessions[t]]_vars

\* The store row of the record that upload request r created.
RowOf(table, r) == table[upReq[r].content.id]

\* C1: the answer to an accepted upload is sent while its record is still
\* `processing`: whenever the record an upload created is `complete` or
\* `failed`, that upload's 201 answer has already been sent.
C1_ResponseBeforeTerminal ==
    \A r \in 1..Len(upReq) :
        (/\ upReq[r].content # NoContent
         /\ RowOf(contents, r).status \in {"complete", "failed"})
        => upReq[r].response.status = 201

\* C3: for a valid PDF upload whose summarizer call fails, the record goes
\* from `processing` to `failed` in the step that handles the failure, its
\* summary is null from then on, and the caller is answered 201.
C3_SummarizerFailure ==
    [][\A r \in 1..Len(upReq) :
        /\ (upReq[r].summarizer = "pending" /\ upReq'[r].summarizer = "rejected")
           => /\ upReq[r].file.mimetype = "application/pdf"
              /\ RowOf(contents, r).status = "processing"
              /\ RowOf(contents, r).summary = NullSummary
        /\ upReq'[r].summarizer = "rejected"
           => /\ contents'[upReq'[r].content.id].status = "failed"
              /\ contents'[upReq'[r].content.id].summary = NullSummary
              /\ upReq'[r].response.status \in {0, 201}
              /\ upReq'[r].pc = "done" => upReq'[r].response.status = 201]_vars

\* C3 witness: an upload whose summarizer call failed has been answered 201
\* and its record is `failed`.
C3_Witness ==
    \E r \in 1..Len(upReq) :
        /\ upReq[r].summarizer = "rejected"
        /\ upReq[r].pc = "done"
        /\ upReq[r].response.status = 201
        /\ RowOf(contents, r).status = "failed"

\* C4: for a valid PDF upload whose summarizer call resolves with text S,
\* the record goes from `processing` to `complete` in the step that handles
\* the result and its summary is S from then on; the one summarizer call of
\* the upload was made with the path stored in that upload's record, which
\* is the path multer stored the file at.
C4_SummarizerSuccess ==
    [][\A r \in 1..Len(upReq) :
        /\ (upReq[r].summarizer = "pending" /\ upReq'[r].summarizer = "resolved")
           => /\ upReq[r].file.mimetype = "application/pdf"
              /\ RowOf(contents, r).status = "processing"
              /\ upReq'[r].summary \in Summaries
        /\ upReq'[r].summarizer = "resolved"
           => /\ contents'[upReq'[r].content.id].status = "complete"
              /\ contents'[upReq'[r].content.id].summary = upReq'[r].summary
        /\ upReq'[r].summarizer # "none"
           => /\ contents'[upReq'[r].content.id].filePath = upReq'[r].path
              /\ \E suffix \in Suffixes : upReq'[r].path = StoredPath(suffix, upReq'[r].file)
              /\ {c.path : c \in {c \in summarizerCalls' : c.req = r}}
                     = {contents'[upReq'[r].content.id].filePath}]_vars

\* C4 witness: a PDF upload whose summarizer resolved has been answered and
\* its record is `complete` with the summarizer's text.
C4_Witness ==
    \E r \in 1..Len(upReq) :
        /\ upReq[r].summarizer = "resolved"
        /\ upReq[r].pc = "done"
        /\ RowOf(contents, r).status = "complete"
        /\ RowOf(contents, r).summary = "T"

\* C5: for every accepted video upload the record is never `failed`, the
\* summarizer is never called for it, the record is `processing` until the
\* video branch has run and `complete` with the fixed placeholder summary
\* from then on (so by the time the upload is answered).
C5_VideoCompletes ==
    \A r \in 1..Len(upReq) :
        (upReq[r].content # NoContent /\ upReq[r].file.mimetype = "video/mp4")
        => /\ upReq[r].content.type = "video"
           /\ RowOf(contents, r).status # "failed"
           /\ upReq[r].summarizer = "none"
           /\ \A c \in summarizerCalls : c.req # r
           /\ upReq[r].pc \in {"created", "updated", "done"}
           /\ upReq[r].pc = "created" => RowOf(contents, r).status = "processing"
           /\ upReq[r].pc \in {"updated", "done"}
              => /\ RowOf(contents, r).status = "complete"
                 /\ RowOf(contents, r).summary =
                        "Video summary is not available in this demo version."

\* C5 witness: a video upload has been answered and its record is `complete`.
C5_Witness ==
    \E r \in 1..Len(upReq) :
        /\ upReq[r].file.mimetype = "video/mp4"
        /\ upReq[r].pc = "done"
        /\ upReq[r].response.status = 201
        /\ RowOf(contents, r).status = "complete"

\* The uploads the interface rejects: no file, a MIME type outside
\* {application/pdf, video/mp4}, or more than 100 MiB.
RejectedUpload(file) ==
    \/ file = NoFile
    \/ file.mimetype \notin {"application/pdf", "video/mp4"}
    \/ file.size > 100 * 1024 * 1024

\* Upload request r arrives or takes a step.
UploadSteps(r) == r > Len(upReq) \/ upReq'[r] # upReq[r]

\* C6: an upload with no file, a MIME type outside the accepted set or a
\* size above the ceiling never has a record and never has a summarizer
\* call, and no step of that request changes the content store or calls
\* the summarizer.
C6_RejectedUploadCreatesNothing ==
    [][\A r \in 1..Len(upReq') :
        RejectedUpload(upReq'[r].file)
        => /\ upReq'[r].content = NoContent
           /\ \A c \in summarizerCalls' : c.req # r
           /\ UploadSteps(r)
              => (contents' = contents /\ summarizerCalls' = summarizerCalls)]_vars

\* C6 witness: an authenticated upload with a rejected file has been
\* answered while the store holds another upload's record.
C6_Witness ==
    \E r \in 1..Len(upReq) :
        /\ upReq[r].pc = "done"
        /\ upReq[r].user # NoIdentity
        /\ upReq[r].file # NoFile
        /\ RejectedUpload(upReq[r].file)
        /\ Len(contents) > 0

\* C7: an upload rejected for its MIME type or its size is answered with a
\* 4xx status.
C7_RejectedUploadIsClientError ==
    \A r \in 1..Len(upReq) :
        (/\ upReq[r].pc = "done"
         /\ upReq[r].user # NoIdentity
         /\ upReq[r].file # NoFile
         /\ RejectedUpload(upReq[r].file))
        => upReq[r].response.status \in 400..499

\* C8: the record in the body of an accepted upload's 201 answer has status
\* `processing` and the uploaded file's size and original name, whether the
\* record was completed or failed by then.
C8_ResponseBodyIsProcessing ==
    \A r \in 1..Len(upReq) :
        upReq[r].response.status = 201
        => /\ upReq[r].response.body.status = "processing"
           /\ upReq[r].response.body.fileSize = upReq[r].file.size
           /\ upReq[r].response.body.filename = upReq[r].file.originalname
           /\ upReq[r].response.body.id = upReq[r].content.id

\* C8 witness: two uploads have been answered 201, one whose record is
\* `complete` and one whose record is `failed`.
C8_Witness ==
    \E r1, r2 \in 1..Len(upReq) :
        /\ upReq[r1].response.status = 201
        /\ upReq[r2].response.status = 201
        /\ RowOf(contents, r1).status = "complete"
        /\ RowOf(contents, r2).status = "failed"

\* An inbound frame of connection c1 is handled in this step, and it is a
\* well-formed event of type "message".
MessageEventOf(c1) ==
    /\ wsEvents' = wsEvents + 1
    /\ lastEvent'.from = c1
    /\ lastEvent'.payload # Malformed
    /\ lastEvent'.payload.type = "message"

\* C2: when a well-formed "message" event of connection c1 is handled, one
\* frame of type "message" with the event's content is sent to every other
\* connection in the client set, and nothing is sent to c1 or to a
\* connection outside the set.
C2_BroadcastToOthersOnly ==
    [][\A c1 \in clients :
        MessageEventOf(c1)
        => /\ \A c2 \in clients \ {c1} :
                /\ Len(inbox'[c2]) = Len(inbox[c2]) + 1
                /\ SubSeq(inbox'[c2], 1, Len(inbox[c2])) = inbox[c2]
                /\ inbox'[c2][Len(inbox'[c2])].type = "message"
                /\ inbox'[c2][Len(inbox'[c2])].content = lastEvent'.payload.content
           /\ inbox'[c1] = inbox[c1]
           /\ \A c \in (DOMAIN inbox) \ clients : inbox'[c] = inbox[c]]_vars

\* C2 witness: two connections are live, the last event handled was a
\* "message" of one of them, and the other holds its frame.
C2_Witness ==
    \E c1, c2 \in clients :
        /\ c1 # c2
        /\ lastEvent.from = c1
        /\ lastEvent.payload # Malformed
        /\ lastEvent.payload.type = "message"
        /\ Len(inbox[c2]) = 2
        /\ inbox[c2][2].type = "message"
        /\ inbox[c2][2].content = lastEvent.payload.content
        /\ Len(inbox[c1]) = 1

\* C13: when the send of a broadcast to one connection throws, the same
\* broadcast is still delivered to every other registered connection except
\* the sender.
C13_FailureDoesNotStopDelivery ==
    [][\A c1 \in clients :
        MessageEventOf(c1) /\ lastEvent'.failing \cap (clients \ {c1}) # {}
        => \A c2 \in clients \ ({c1} \cup lastEvent'.failing) :
               /\ Len(inbox'[c2]) = Len(inbox[c2]) + 1
               /\ inbox'[c2][Len(inbox'[c2])].type = "message"
               /\ inbox'[c2][Len(inbox'[c2])].content = lastEvent'.payload.content]_vars

\* The event handled last was a malformed frame of connection c1.
MalformedEventOf(c1) ==
    /\ wsEvents' = wsEvents + 1
    /\ lastEvent'.from = c1
    /\ lastEvent'.payload = Malformed

\* C14: handling a malformed inbound frame sends nothing to any connection
\* (the sender included, so no error reaches it) and removes no connection
\* from the client set; the sender's connection stays registered.
C14_MalformedIsDropped ==
    [][\A c1 \in clients :
        MalformedEventOf(c1)
        => /\ inbox' = inbox
           /\ clients' = clients
           /\ c1 \in clients']_vars

\* C14 witness: a malformed frame of one of two live connections was handled
\* after an earlier event, and each connection holds what it held before.
C14_Witness ==
    /\ wsEvents = 2
    /\ lastEvent.payload = Malformed
    /\ lastEvent.from \in clients
    /\ Cardinality(clients) >= 2
    /\ \E c \in clients : Len(inbox[c]) = 2

\* C15: the frame sent for a "message" event carries the userId and username
\* of the session its sessionId names when the session map has that entry,
\* "system" and "System" otherwise, and the event's content unchanged.
C15_SenderIdentity ==
    [][\A c1 \in clients :
        MessageEventOf(c1)
        => LET sid == lastEvent'.payload.sessionId
               resolves == sid # Missing /\ sid \in DOMAIN sessions
           IN
           \A c2 \in clients \ {c1} :
               LET frame == inbox'[c2][Len(inbox'[c2])] IN
               /\ frame.senderId =
                    IF resolves THEN ToString(sessions[sid].userId) ELSE "system"
               /\ frame.senderName =
                    IF resolves THEN sessions[sid].username ELSE "System"
               /\ frame.content = lastEvent'.payload.content]_vars

\* Upload request r created a record and a step of its processing failed:
\* the summarizer rejected, or a record-store update rejected.
ProcessingFailed(r) ==
    /\ upReq[r].content # NoContent
    /\ upReq[r].summarizer = "rejected" \/ upReq[r].thrown \in {"try", "catch", "video"}

\* C16: an upload whose processing failed (summarizer or record-store
\* update) is not answered with an error, and once the request is finished
\* its record is `failed`.
C16_FailureRecordedNotSurfaced ==
    \A r \in 1..Len(upReq) :
        ProcessingFailed(r)
        => /\ upReq[r].response.status \in {0, 201}
           /\ upReq[r].pc = "done" => RowOf(contents, r).status = "failed"

Terminal == {"complete", "failed"}

\* C18: a record is created `processing`; once its status is `complete` or
\* `failed` no step changes its status or summary (so it enters a terminal
\* status at most once), and no step removes a record.
C18_TerminalIsFinal ==
    [][/\ \A id \in DOMAIN contents :
            /\ id \in DOMAIN contents'
            /\ contents[id].status \in Terminal
               => /\ contents'[id].status = contents[id].status
                  /\ contents'[id].summary = contents[id].summary
       /\ \A id \in DOMAIN contents' \ DOMAIN contents :
            contents'[id].status = "processing"]_vars

\* C18 witness: one record went from `processing` to `complete`, another to
\* `failed`, and both requests have been answered since.
C18_Witness ==
    \E r1, r2 \in 1..Len(upReq) :
        /\ upReq[r1].pc = "done" /\ upReq[r1].content # NoContent
        /\ upReq[r2].pc = "done" /\ upReq[r2].content # NoContent
        /\ upReq[r1].content.status = "processing"
        /\ upReq[r2].content.status = "processing"
        /\ RowOf(contents, r1).status = "complete"
        /\ RowOf(contents, r2).status = "failed"

\* C19: every record created eventually has a terminal status.
C19_EveryRecordTerminates ==
    \A id \in 1..MaxUploads :
        (id \in DOMAIN contents)
        ~> (id \in DOMAIN contents /\ contents[id].status \in Terminal)

\* The requests that created record id.
CreatorsOf(id) ==
    {r \in 1..Len(upReq) : upReq[r].content # NoContent /\ upReq[r].content.id = id}

\* C20: no two upload requests hold the same record id; a step that changes
\* a record is a step of the one request that created it; and the terminal
\* status and summary it writes follow from that record's type and that
\* request's summarizer outcome alone.
C20_OwnRecordOnly ==
    [][/\ \A id \in DOMAIN contents : Cardinality(CreatorsOf(id)) = 1
       /\ \A id \in DOMAIN contents :
            contents'[id] # contents[id]
            => \E r \in CreatorsOf(id) :
                 /\ upReq'[r] # upReq[r]
                 /\ \A q \in (1..Len(upReq)) \ {r} : upReq'[q] = upReq[q]
                 /\ \A other \in (DOMAIN contents) \ {id} : contents'[other] = contents[other]
                 /\ contents'[id].status # "processing"
                 /\ contents'[id].status =
                      IF contents[id].type = "pdf" /\ upReq'[r].summarizer = "rejected"
                      THEN "failed" ELSE "complete"
                 /\ contents'[id].summary =
                      IF contents[id].type = "video" THEN VideoPlaceholder
                      ELSE IF upReq'[r].summarizer = "resolved" THEN upReq'[r].summary
                      ELSE NullSummary]_vars

\* C20 witness: two uploads were in flight together; the later record is
\* already terminal while the earlier one, a pdf, still waits for its
\* summarizer.
C20_Witness ==
    \E r1, r2 \in 1..Len(upReq) :
        /\ upReq[r1].content # NoContent /\ upReq[r1].content.id = 1
        /\ upReq[r2].content # NoContent /\ upReq[r2].content.id = 2
        /\ upReq[r1].pc = "summarizing"
        /\ contents[1].status = "processing"
        /\ contents[2].status \in Terminal

\* The answer of authenticate to a request whose handler never ran.
Rejected401(req) ==
    req.pc = "done" /\ req.response.status = 401 /\ req.user = NoIdentity

\* C11: a request to an authenticated route that carries no session token,
\* or a token that is not a key of the session map, is answered 401 and its
\* handler does not run.
C11_NoSessionIs401 ==
    [][/\ \A r \in 1..Len(apiReq) :
            (apiReq[r].pc = "bootstrap" /\ apiReq'[r] # apiReq[r])
            => Rejected401(apiReq'[r])
       /\ Len(apiReq') > Len(apiReq)
          => LET req == apiReq'[Len(apiReq')] IN
             (req.pc # "bootstrap" /\ req.header \notin DOMAIN sessions)
             => Rejected401(req)]_vars

\* C12: when the user list of a request without a token comes back non-empty,
\* a session is added under a key the map did not have, for an existing
\* user, and the request goes on as that user; when the list is empty no
\* session is created; and a step of a request that carries a token leaves
\* the session map alone.
C12_BootstrapSession ==
    [][\A r \in 1..Len(apiReq') :
        IF r <= Len(apiReq) /\ apiReq[r].pc = "bootstrap" /\ apiReq'[r] # apiReq[r]
        THEN IF Len(users) > 0
             THEN \E t \in (DOMAIN sessions') \ (DOMAIN sessions) :
                    /\ \E u \in 1..Len(users) : sessions'[t] = SessionOf(users[u])
                    /\ \A k \in DOMAIN sessions : sessions'[k] = sessions[k]
                    /\ apiReq'[r].header = t
                    /\ apiReq'[r].user = sessions'[t]
                    /\ apiReq'[r].response.status # 401
             ELSE sessions' = sessions
        ELSE (r > Len(apiReq) \/ apiReq'[r] # apiReq[r]) => sessions' = sessions]_vars

\* A read-marking step of fetch request r.
MarksRead(r) == apiReq[r].pc = "conversation" /\ apiReq'[r].pc = "marked"

\* Row m was sent to the caller of request req by the user its path names.
Incoming(m, req) ==
    m.receiverId = req.user.userId /\ m.senderId = ParseInt(req.param)

\* C17: the read-marking step of a conversation fetch by R for P sets the
\* read flag of every row sent to R by P and changes nothing else in the
\* message table; no other step of a fetch changes the table; and a fetch
\* answered 200 has every row sent to R by P marked read.
C17_MarksOnlyIncoming ==
    [][/\ \A r \in 1..Len(apiReq) :
            MarksRead(r)
            => /\ DOMAIN messages' = DOMAIN messages
               /\ \A i \in DOMAIN messages :
                    messages'[i] =
                        IF Incoming(messages[i], apiReq[r])
                        THEN [messages[i] EXCEPT !.read = TRUE]
                        ELSE messages[i]
       /\ (\A r \in 1..Len(apiReq) : ~MarksRead(r)) => messages' = messages
       /\ \A r \in 1..Len(apiReq') :
            apiReq'[r].response.status = 200
            => \A i \in DOMAIN messages' :
                 Incoming(messages'[i], apiReq'[r]) => messages'[i].read]_vars

\* C17 witness: alice fetched her conversation with bob; the answer shows
\* bob's message as it was, unread, and it is read now, while her own
\* message to bob and carol's message to her are still unread.
C17_Witness ==
    \E r \in 1..Len(apiReq) :
        /\ apiReq[r].response.status = 200
        /\ apiReq[r].user.userId = 1
        /\ apiReq[r].param = "2"
        /\ Len(apiReq[r].response.body) = 2
        /\ apiReq[r].response.body[1].read = FALSE
        /\ messages[1].read /\ ~messages[2].read /\ ~messages[3].read

\* C21: every connection was sent exactly one frame of type "system", its
\* welcome, and that frame is the first one sent to it: whatever reached it
\* from other connections' events comes after.
C21_WelcomeFirstAndOnce ==
    \A c \in DOMAIN inbox :
        /\ Len(inbox[c]) >= 1
        /\ inbox[c][1].type = "system"
        /\ \A i \in 2..Len(inbox[c]) : inbox[c][i].type # "system"

\* C21 witness: one connection holds its welcome and two broadcasts, a later
\* one its welcome and the second broadcast only: it was opened between
\* the two events.
C21_Witness ==
    \E c2, c3 \in clients :
        /\ c2 < c3
        /\ Len(inbox[c2]) = 3
        /\ Len(inbox[c3]) = 2
        /\ inbox[c3][1].type = "system" /\ inbox[c3][2].type = "message"

\* C22: when connection c1 sends m1 and then m2, a connection registered
\* during both holds m1's frame and then m2's frame, next to each other and
\* last; and when the step handling an event ends, every other registered
\* connection already holds that event's frame.
C22_ArrivalOrder ==
    [][\A c1 \in clients :
        MessageEventOf(c1)
        => \A c2 \in clients \ {c1} :
             LET n == Len(inbox'[c2]) IN
             /\ n = Len(inbox[c2]) + 1
             /\ inbox'[c2][n] = BroadcastFrame(lastEvent'.payload)
             /\ (lastEvent.from = c1 /\ IsBroadcast(lastEvent.payload) /\ n > 2)
                => inbox'[c2][n - 1] = BroadcastFrame(lastEvent.payload)]_vars

\* C22 witness: of two connections the first sent two different messages;
\* the second holds their frames in that order after its welcome.
C22_Witness ==
    \E c1, c2 \in clients :
        /\ nextConn = 2 /\ wsEvents = 2
        /\ lastEvent.from = c1
        /\ Len(inbox[c1]) = 1
        /\ Len(inbox[c2]) = 3
        /\ inbox[c2][2].type = "message"
        /\ inbox[c2][2] # inbox[c2][3]
        /\ inbox[c2][3] = BroadcastFrame(lastEvent.payload)

\* The part of C23 that concerns the body: every row the message-send route
\* adds has as senderId the userId of the session the request's header
\* names, which is a user's id, whatever senderId the body carries, and no
\* later step changes a row's senderId.
SenderIsSessionUser ==
    [][/\ \A i \in DOMAIN messages : messages'[i].senderId = messages[i].senderId
       /\ \A i \in (DOMAIN messages') \ (DOMAIN messages) :
            \E r \in 1..Len(postReq') :
                /\ r > Len(postReq) \/ postReq'[r] # postReq[r]
                /\ postReq'[r].message = messages'[i]
                /\ postReq'[r].header \in DOMAIN sessions'
                /\ messages'[i].senderId = sessions'[postReq'[r].header].userId
                /\ \E u \in 1..Len(users) : users[u].id = messages'[i].senderId]_vars

\* C23: every row created through the message-send route has as senderId
\* the id of the user who made the request: no user creates a message
\* attributed to another user.
C23_SenderIsCaller ==
    \A r \in 1..Len(postReq) :
        postReq[r].message # NoMessage
        => messages[postReq[r].message.id].senderId = postReq[r].caller

\* C24: the user store never holds two users with the same username,
\* whatever the interleaving of registrations.
C24_UniqueUsernames ==
    \A i, j \in 1..Len(users) :
        users[i].username = users[j].username => i = j

\* A register or login request r was answered with an error in this step.
AuthRefused(r) ==
    /\ r > Len(authReq) \/ authReq'[r] # authReq[r]
    /\ authReq'[r].response.status \in {400, 401}

\* A step that may write the session map: a registration answered 201, a
\* login answered 200, or the bootstrap of a token-less request.
SessionWriter ==
    \/ \E r \in 1..Len(authReq) :
          /\ authReq'[r] # authReq[r]
          /\ authReq'[r].response.status \in {200, 201}
    \/ \E r \in 1..Len(apiReq) :
          apiReq[r].pc = "bootstrap" /\ apiReq'[r] # apiReq[r]

\* C25: after every step each entry of the session map names the id of a
\* user in the user store; the map changes only in a successful register,
\* a successful login or a bootstrap step; a refused login or registration
\* leaves it unchanged.
C25_SessionsNameUsers ==
    [][/\ \A t \in DOMAIN sessions' :
            \E u \in 1..Len(users') : users'[u].id = sessions'[t].userId
       /\ sessions' # sessions => SessionWriter
       /\ \A r \in 1..Len(authReq') : AuthRefused(r) => sessions' = sessions]_vars

\* C25 witness: the map holds a session made by a registration and one made
\* by the bootstrap of a token-less request, and a login was refused.
C25_Witness ==
    /\ \E r \in 1..Len(authReq) :
          authReq[r].route = "register" /\ authReq[r].response.status = 201
          /\ authReq[r].token \in DOMAIN sessions
    /\ \E r \in 1..Len(authReq) :
          authReq[r].route = "login" /\ authReq[r].response.status = 401
    /\ \E r \in 1..Len(apiReq) :
          apiReq[r].first # NoUser /\ apiReq[r].pc = "done"
          /\ apiReq[r].header \in DOMAIN sessions

====
